---- MODULE Spec2Model ----
(***************************************************************************)
(* A model of maymun-lang: the lexer (src/lexer), the Pratt parser         *)
(* (src/parser), the tree-walking evaluator (src/eval) and the REPL loop   *)
(* (src/repl) that threads one Environment through successive lines.       *)
(*                                                                         *)
(* Spec       the evaluator run statement by statement over Program ASTs,  *)
(*            one REPL line after the other, sharing the Environment.  A   *)
(*            Program is any sequence of at most MaxStmts statements of    *)
(*            TopStmts; eval_program reads it front to back, once, so each *)
(*            statement is drawn when the loop reaches it.                 *)
(* SpecParse  parse_program run statement by statement over token          *)
(*            sequences.                                                   *)
(* SpecLex    Lexer::new and repeated Lexer::next_token calls over texts.  *)
(* SpecRepl   repl::start over lines of tokens: each line is parsed         *)
(*            statement by statement, then its errors are written or its   *)
(*            program is evaluated, statement by statement, and the value  *)
(*            written.                                                     *)
(*            SpecReplLive is SpecRepl with the loop kept running.         *)
(* SpecExpr   eval_program over programs made of one statement xstmt, taken *)
(*            once or repeated, started in an Environment that binds x to  *)
(*            a value of any kind: the operators and conditionals over     *)
(*            operands of every kind.                                      *)
(***************************************************************************)
EXTENDS Integers, Sequences, FiniteSets, TLC

VARIABLES
    env,              \* repl::start env: the session Environment (HashMap)
    ip,               \* eval_program: statements of program.all() consumed so far
    result,           \* eval_program's result, then its return value: <<>> is None
    status,           \* "idle" | "running" | "returned" | "panicked"
    envBefore,        \* history: the Environment when the last top-level statement began
    trace,            \* history: statements begun / ended by the last top-level statement
    bound,            \* history: identifier -> <<value of its last completed top-level let>>
    lineNo,           \* history: number of lines read so far
    overflow_checks,  \* the build: TRUE panics on arithmetic overflow, FALSE wraps
    parser,           \* the Parser: its Lexer (toks, at), cur_token, peek_token, errors
    parsed,           \* parse_program's program: the statements pushed so far
    pstatus,          \* "off" | "parsing" | "done" | "panicked" | "hung"
    lexer,            \* the Lexer: input, position, read_position, ch
    ltok,             \* the Option of the token the last next_token call returned
    lstatus,          \* "off" | "lexing" | "panicked"
    atEof,            \* <<the Lexer as it was when Eof was first returned>>, else <<>>
    lcalls,           \* history: next_token calls made, up to the one that returned Eof
    xstmt,            \* SpecExpr: the statement the program under evaluation is made of
    out,              \* repl::start writer: what the current loop iteration has written
    eof               \* repl::start reader: a read_line has returned Ok(0), end of input

\* the variables of the evaluator, of the parser and of the lexer
evalVars == <<env, ip, result, status, envBefore, trace, bound, lineNo>>
parseVars == <<parser, parsed, pstatus>>
lexVars == <<lexer, ltok, lstatus, atEof, lcalls>>
exprVars == <<xstmt>>
replVars == <<out, eof>>

vars == <<evalVars, overflow_checks, parseVars, lexVars, exprVars, replVars>>

----------------------------------------------------------------------------
(* Bounds of the model.                                                    *)

\* width, in bits, of the model's signed integers (i64 scaled down)
IntBits == 6
\* bits of a usize
UsizeBits == 3
\* statements per program
MaxStmts == 2
\* lines read by one REPL session
MaxLines == 2

MinInt == -(2 ^ (IntBits - 1))
MaxInt == (2 ^ (IntBits - 1)) - 1

----------------------------------------------------------------------------
(* object::Object, the runtime values.  A process abort (a Rust panic) is  *)
(* carried as the pseudo-value ObjPanic, which no program can observe.     *)

ObjInteger(i) == [k |-> "Integer", n |-> i, b |-> FALSE, msg |-> "", inner |-> <<>>]
ObjBoolean(v) == [k |-> "Boolean", n |-> 0, b |-> v, msg |-> "", inner |-> <<>>]
ObjNull == [k |-> "Null", n |-> 0, b |-> FALSE, msg |-> "", inner |-> <<>>]
ObjReturn(o) == [k |-> "Return", n |-> 0, b |-> FALSE, msg |-> "", inner |-> <<o>>]
ObjError(m) == [k |-> "Error", n |-> 0, b |-> FALSE, msg |-> m, inner |-> <<>>]
ObjPanic(m) == [k |-> "Panic", n |-> 0, b |-> FALSE, msg |-> m, inner |-> <<>>]

RECURSIVE to_string(_)
\* impl Display for Object
to_string(o) ==
    CASE o.k = "Integer" -> "Integer(" \o ToString(o.n) \o ")"
      [] o.k = "Boolean" -> "Boolean(" \o (IF o.b THEN "true" ELSE "false") \o ")"
      [] o.k = "Null" -> "Null"
      [] o.k = "Return" -> "Return(" \o to_string(o.inner[1]) \o ")"
      [] OTHER -> "Error(" \o o.msg \o ")"

\* Environment::new(), HashMap::get and HashMap::insert
EnvironmentNew == [name \in {} |-> ObjNull]
EnvGet(e, name) == IF name \in DOMAIN e THEN <<e[name]>> ELSE <<>>
\* an insert that keeps the value of a name already bound
EnvInsert_KeepFirst(e, name, o) ==
    [x \in DOMAIN e \cup {name} |-> IF x \in DOMAIN e THEN e[x] ELSE o]
EnvInsert(e, name, o) == [x \in DOMAIN e \cup {name} |-> IF x = name THEN o ELSE e[x]]

----------------------------------------------------------------------------
(* ast::Expression and ast::Statement.  A block is a sequence of           *)
(* statements; an absent alternative is <<>>, a present one <<block>>.     *)

ExprLiteral(name) ==
    [k |-> "Literal", s |-> name, n |-> 0, b |-> FALSE, kids |-> <<>>, conseq |-> <<>>, alter |-> <<>>]
ExprInt(i) ==
    [k |-> "Int", s |-> "", n |-> i, b |-> FALSE, kids |-> <<>>, conseq |-> <<>>, alter |-> <<>>]
ExprBoolean(v) ==
    [k |-> "Boolean", s |-> "", n |-> 0, b |-> v, kids |-> <<>>, conseq |-> <<>>, alter |-> <<>>]
ExprPrefix(op, right) ==
    [k |-> "Prefix", s |-> op, n |-> 0, b |-> FALSE, kids |-> <<right>>, conseq |-> <<>>, alter |-> <<>>]
ExprInfix(left, op, right) ==
    [k |-> "Infix", s |-> op, n |-> 0, b |-> FALSE, kids |-> <<left, right>>, conseq |-> <<>>, alter |-> <<>>]
ExprIf(cond, cons, alt) ==
    [k |-> "If", s |-> "", n |-> 0, b |-> FALSE, kids |-> <<cond>>, conseq |-> cons, alter |-> alt]

StmtLet(name, e) == [k |-> "Let", id |-> name, e |-> e]
StmtReturn(e) == [k |-> "Return", id |-> "", e |-> e]
StmtExpression(e) == [k |-> "Expression", id |-> "", e |-> e]

----------------------------------------------------------------------------
(* i64 arithmetic as rustc compiles it.                                    *)

Wrap(v) == ((v - MinInt) % (2 ^ IntBits)) + MinInt
Abs(v) == IF v < 0 THEN -v ELSE v

\* binary +, -, * and unary -: overflow panics or wraps, by the build
Arith(v, checks) ==
    IF v >= MinInt /\ v <= MaxInt THEN ObjInteger(v)
    ELSE IF checks THEN ObjPanic("arithmetic overflow")
    ELSE ObjInteger(Wrap(v))

\* division truncates toward zero; a zero divisor and MIN / -1 panic in every build
Divide(li, ri) ==
    IF ri = 0 THEN ObjPanic("attempt to divide by zero")
    ELSE IF li = MinInt /\ ri = -1 THEN ObjPanic("attempt to divide with overflow")
    ELSE IF (li < 0) = (ri < 0) THEN ObjInteger(Abs(li) \div Abs(ri))
    ELSE ObjInteger(-(Abs(li) \div Abs(ri)))

----------------------------------------------------------------------------
(* The evaluator, src/eval/mod.rs.  Every function returns the value, the  *)
(* Environment it leaves (it is handed the Environment mutably) and the    *)
(* events of the statements it began and ended, in order.                  *)

EvBegin(stmt) == [ev |-> "B", sk |-> stmt.k, o |-> <<>>]
EvEnd(stmt, o) == [ev |-> "E", sk |-> stmt.k, o |-> <<o>>]

Res(o, e, tr) == [o |-> o, env |-> e, tr |-> tr]

\* a test for errors that no value passes
IsError_Never(o) == FALSE

\* the patterns Object::Error(msg) and Object::Return(o) of the evaluator's matches
IsError(o) == o.k = "Error"
IsReturn(o) == o.k = "Return"
\* the process has aborted
IsPanic(o) == o.k = "Panic"

\* a prefix ! that takes every Integer for true
EvalPrefixOp_IntegerTruthy(op, right, checks) ==
    CASE op = "!" ->
            (CASE right.k = "Boolean" -> ObjBoolean(~right.b)
               [] right.k = "Integer" -> ObjBoolean(FALSE)
               [] OTHER -> ObjError("unknown prefix type: " \o to_string(right)))
      [] op = "-" ->
            IF right.k = "Integer" THEN Arith(-right.n, checks)
            ELSE ObjError("unknown operator: -" \o to_string(right))
      [] OTHER -> ObjError("unknown operator: " \o op \o to_string(right))

\* the match on op.as_str() of Expression::Prefix
EvalPrefixOp(op, right, checks) ==
    CASE op = "!" ->
            (CASE right.k = "Boolean" -> ObjBoolean(~right.b)
               [] right.k = "Integer" -> ObjBoolean(right.n = 0)
               [] OTHER -> ObjError("unknown prefix type: " \o to_string(right)))
      [] op = "-" ->
            IF right.k = "Integer" THEN Arith(-right.n, checks)
            ELSE ObjError("unknown operator: -" \o to_string(right))
      [] OTHER -> ObjError("unknown operator: " \o op \o to_string(right))

\* an infix match that rejects == and != between values of different kinds
EvalInfixOp_SameKindOnly(left, op, right, checks) ==
    IF left.k = "Integer" /\ right.k = "Integer"
    THEN CASE op = "+" -> Arith(left.n + right.n, checks)
           [] op = "-" -> Arith(left.n - right.n, checks)
           [] op = "*" -> Arith(left.n * right.n, checks)
           [] op = "/" -> Divide(left.n, right.n)
           [] op = "<" -> ObjBoolean(left.n < right.n)
           [] op = ">" -> ObjBoolean(left.n > right.n)
           [] op = "==" -> ObjBoolean(left.n = right.n)
           [] op = "!=" -> ObjBoolean(left.n # right.n)
           [] OTHER -> ObjError("unknown operator: " \o to_string(left) \o " " \o op
                                \o " " \o to_string(right))
    ELSE CASE op = "==" /\ left.k = right.k -> ObjBoolean(left = right)
           [] op = "!=" /\ left.k = right.k -> ObjBoolean(left # right)
           [] OTHER -> ObjError("mismatch expression operation: " \o to_string(left)
                                \o " " \o op \o " " \o to_string(right))

\* the match on (&left, &right) of Expression::Infix
EvalInfixOp(left, op, right, checks) ==
    IF left.k = "Integer" /\ right.k = "Integer"
    THEN CASE op = "+" -> Arith(left.n + right.n, checks)
           [] op = "-" -> Arith(left.n - right.n, checks)
           [] op = "*" -> Arith(left.n * right.n, checks)
           [] op = "/" -> Divide(left.n, right.n)
           [] op = "<" -> ObjBoolean(left.n < right.n)
           [] op = ">" -> ObjBoolean(left.n > right.n)
           [] op = "==" -> ObjBoolean(left.n = right.n)
           [] op = "!=" -> ObjBoolean(left.n # right.n)
           [] OTHER -> ObjError("unknown operator: " \o to_string(left) \o " " \o op
                                \o " " \o to_string(right))
    ELSE CASE op = "==" -> ObjBoolean(left = right)
           [] op = "!=" -> ObjBoolean(left # right)
           [] OTHER -> ObjError("mismatch expression operation: " \o to_string(left)
                                \o " " \o op \o " " \o to_string(right))

\* Option::unwrap on the value of a block
Unwrap(r) ==
    IF r.o = <<>> THEN Res(ObjPanic("called Option::unwrap() on a None value"), r.env, r.tr)
    ELSE Res(r.o[1], r.env, r.tr)

RECURSIVE eval_expression(_, _, _)
RECURSIVE BlockLoop(_, _, _, _, _, _)

\* fn eval_block_statements: None is <<>>, Some(o) is <<o>>
eval_block_statements(stmts, e, checks) == BlockLoop(stmts, 1, e, <<>>, <<>>, checks)

\* a block loop whose let statements bind their identifier
BlockLoop_LetBinds(stmts, i, e, res, tr, checks) ==
    IF i > Len(stmts) THEN [o |-> res, env |-> e, tr |-> tr]
    ELSE LET stmt == stmts[i] IN
      CASE stmt.k = "Expression" ->
             LET r == eval_expression(stmt.e, e, checks)
                 tr2 == tr \o <<EvBegin(stmt)>> \o r.tr \o <<EvEnd(stmt, r.o)>>
             IN CASE IsPanic(r.o) -> [o |-> <<r.o>>, env |-> r.env, tr |-> tr2]
                  [] IsReturn(r.o) -> [o |-> <<r.o.inner[1]>>, env |-> r.env, tr |-> tr2]
                  [] IsError(r.o) -> [o |-> <<r.o>>, env |-> r.env, tr |-> tr2]
                  [] OTHER -> BlockLoop(stmts, i + 1, r.env, <<r.o>>, tr2, checks)
        [] stmt.k = "Return" ->
             LET r == eval_expression(stmt.e, e, checks)
                 tr2 == tr \o <<EvBegin(stmt)>> \o r.tr \o <<EvEnd(stmt, r.o)>>
             IN CASE IsPanic(r.o) -> [o |-> <<r.o>>, env |-> r.env, tr |-> tr2]
                  [] IsError(r.o) -> [o |-> <<r.o>>, env |-> r.env, tr |-> tr2]
                  [] OTHER -> [o |-> <<ObjReturn(r.o)>>, env |-> r.env, tr |-> tr2]
        [] OTHER ->
             LET r == eval_expression(stmt.e, e, checks)
             IN BlockLoop(stmts, i + 1, EnvInsert(r.env, stmt.id, r.o), res, tr, checks)

\* the loop over stmts of eval_block_statements, from statement i on
BlockLoop(stmts, i, e, res, tr, checks) ==
    IF i > Len(stmts) THEN [o |-> res, env |-> e, tr |-> tr]
    ELSE LET stmt == stmts[i] IN
      CASE stmt.k = "Expression" ->
             LET r == eval_expression(stmt.e, e, checks)
                 tr2 == tr \o <<EvBegin(stmt)>> \o r.tr \o <<EvEnd(stmt, r.o)>>
             IN CASE IsPanic(r.o) -> [o |-> <<r.o>>, env |-> r.env, tr |-> tr2]
                  [] IsReturn(r.o) -> [o |-> <<r.o.inner[1]>>, env |-> r.env, tr |-> tr2]
                  [] IsError(r.o) -> [o |-> <<r.o>>, env |-> r.env, tr |-> tr2]
                  [] OTHER -> BlockLoop(stmts, i + 1, r.env, <<r.o>>, tr2, checks)
        [] stmt.k = "Return" ->
             LET r == eval_expression(stmt.e, e, checks)
                 tr2 == tr \o <<EvBegin(stmt)>> \o r.tr \o <<EvEnd(stmt, r.o)>>
             IN CASE IsPanic(r.o) -> [o |-> <<r.o>>, env |-> r.env, tr |-> tr2]
                  [] IsError(r.o) -> [o |-> <<r.o>>, env |-> r.env, tr |-> tr2]
                  [] OTHER -> [o |-> <<ObjReturn(r.o)>>, env |-> r.env, tr |-> tr2]
        [] OTHER -> BlockLoop(stmts, i + 1, e, res, tr, checks)

\* an eval_expression whose conditional takes Integer(0) for false
eval_expression_ZeroIsFalse(expr, e, checks) ==
    CASE expr.k = "Int" -> Res(ObjInteger(expr.n), e, <<>>)
      [] expr.k = "Boolean" -> Res(ObjBoolean(expr.b), e, <<>>)
      [] expr.k = "Literal" ->
           IF EnvGet(e, expr.s) # <<>> THEN Res(EnvGet(e, expr.s)[1], e, <<>>)
           ELSE Res(ObjError("identifier not found: " \o expr.s), e, <<>>)
      [] expr.k = "Prefix" ->
           LET r == eval_expression(expr.kids[1], e, checks) IN
           IF IsPanic(r.o) \/ IsError(r.o) THEN r
           ELSE Res(EvalPrefixOp(expr.s, r.o, checks), r.env, r.tr)
      [] expr.k = "Infix" ->
           LET l == eval_expression(expr.kids[1], e, checks) IN
           IF IsPanic(l.o) \/ IsError(l.o) THEN l
           ELSE LET r == eval_expression(expr.kids[2], l.env, checks) IN
                IF IsPanic(r.o) \/ IsError(r.o) THEN Res(r.o, r.env, l.tr \o r.tr)
                ELSE Res(EvalInfixOp(l.o, expr.s, r.o, checks), r.env, l.tr \o r.tr)
      [] expr.k = "If" ->
           LET c == eval_expression(expr.kids[1], e, checks)
               Block(stmts) ==
                   LET r == Unwrap(eval_block_statements(stmts, c.env, checks))
                   IN Res(r.o, r.env, c.tr \o r.tr)
               AlternativeOrNull ==
                   IF expr.alter # <<>> THEN Block(expr.alter[1])
                   ELSE Res(ObjNull, c.env, c.tr)
           IN IF IsPanic(c.o) \/ IsError(c.o) THEN c
              ELSE CASE c.o.k = "Boolean" ->
                          IF c.o.b THEN Block(expr.conseq) ELSE AlternativeOrNull
                     [] c.o.k = "Null" -> AlternativeOrNull
                     [] c.o.k = "Integer" /\ c.o.n = 0 -> AlternativeOrNull
                     [] OTHER -> Block(expr.conseq)
      [] OTHER -> Res(ObjNull, e, <<>>)

\* fn eval_expression
eval_expression(expr, e, checks) ==
    CASE expr.k = "Int" -> Res(ObjInteger(expr.n), e, <<>>)
      [] expr.k = "Boolean" -> Res(ObjBoolean(expr.b), e, <<>>)
      [] expr.k = "Literal" ->
           IF EnvGet(e, expr.s) # <<>> THEN Res(EnvGet(e, expr.s)[1], e, <<>>)
           ELSE Res(ObjError("identifier not found: " \o expr.s), e, <<>>)
      [] expr.k = "Prefix" ->
           LET r == eval_expression(expr.kids[1], e, checks) IN
           IF IsPanic(r.o) \/ IsError(r.o) THEN r
           ELSE Res(EvalPrefixOp(expr.s, r.o, checks), r.env, r.tr)
      [] expr.k = "Infix" ->
           LET l == eval_expression(expr.kids[1], e, checks) IN
           IF IsPanic(l.o) \/ IsError(l.o) THEN l
           ELSE LET r == eval_expression(expr.kids[2], l.env, checks) IN
                IF IsPanic(r.o) \/ IsError(r.o) THEN Res(r.o, r.env, l.tr \o r.tr)
                ELSE Res(EvalInfixOp(l.o, expr.s, r.o, checks), r.env, l.tr \o r.tr)
      [] expr.k = "If" ->
           LET c == eval_expression(expr.kids[1], e, checks)
               Block(stmts) ==
                   LET r == Unwrap(eval_block_statements(stmts, c.env, checks))
                   IN Res(r.o, r.env, c.tr \o r.tr)
               AlternativeOrNull ==
                   IF expr.alter # <<>> THEN Block(expr.alter[1])
                   ELSE Res(ObjNull, c.env, c.tr)
           IN IF IsPanic(c.o) \/ IsError(c.o) THEN c
              ELSE CASE c.o.k = "Boolean" ->
                          IF c.o.b THEN Block(expr.conseq) ELSE AlternativeOrNull
                     [] c.o.k = "Null" -> AlternativeOrNull
                     [] OTHER -> Block(expr.conseq)
      [] OTHER -> Res(ObjNull, e, <<>>)

----------------------------------------------------------------------------
(* token::Token.                                                           *)

Tok(kind) == [t |-> kind, s |-> "", n |-> 0]
TokIdent(name) == [t |-> "Ident", s |-> name, n |-> 0]
TokInt(i) == [t |-> "Int", s |-> "", n |-> i]

\* impl Display for Token: the operators print as their text, the others as Debug
TokenDebug(tok) ==
    CASE tok.t = "Ident" -> "Ident(\"" \o tok.s \o "\")"
      [] tok.t = "Int" -> "Int(" \o ToString(tok.n) \o ")"
      [] OTHER -> tok.t
TokenDisplay(tok) ==
    CASE tok.t = "Assign" -> "="
      [] tok.t = "Plus" -> "+"
      [] tok.t = "Minus" -> "-"
      [] tok.t = "Bang" -> "!"
      [] tok.t = "Asterisk" -> "*"
      [] tok.t = "Slash" -> "/"
      [] tok.t = "Gt" -> ">"
      [] tok.t = "Lt" -> "<"
      [] tok.t = "Eq" -> "=="
      [] tok.t = "NotEq" -> "!="
      [] OTHER -> TokenDebug(tok)

----------------------------------------------------------------------------
(* The lexer, src/lexer/mod.rs.  A text is a sequence of chars, each a     *)
(* string; a char outside ASCII takes two bytes of the text.  A Lexer is   *)
(* the record [input, position, read_position, ch]; a lexer function       *)
(* returns [l, tok, st]: the Lexer it leaves, the Option of its token and  *)
(* "ok", or "panic" when it aborted the process.                           *)

MaxUsize == 2 ^ UsizeBits - 1

\* '\0'
Nul == "<NUL>"
\* a char of two bytes
NonAscii == "é"

AsciiLetters ==
    {"a", "b", "c", "d", "e", "f", "g", "h", "i", "j", "k", "l", "m",
     "n", "o", "p", "q", "r", "s", "t", "u", "v", "w", "x", "y", "z",
     "A", "B", "C", "D", "E", "F", "G", "H", "I", "J", "K", "L", "M",
     "N", "O", "P", "Q", "R", "S", "T", "U", "V", "W", "X", "Y", "Z"}
AsciiDigits == {"0", "1", "2", "3", "4", "5", "6", "7", "8", "9"}
AsciiWhitespace == {" ", "\t", "\n", "\r"}

is_letter(ch) == ch \in AsciiLetters \/ ch = "_"
is_digit(ch) == ch \in AsciiDigits

\* char::len_utf8
Width(ch) == IF ch = NonAscii THEN 2 ELSE 1

RECURSIVE ByteLen(_)
\* str::len, in bytes
ByteLen(input) == IF input = <<>> THEN 0 ELSE Width(Head(input)) + ByteLen(Tail(input))

\* the byte offset at which char k of the text starts (k - 1 chars come before)
ByteStart(input, k) == ByteLen(SubSeq(input, 1, k - 1))

RECURSIVE Concat(_)
Concat(chars) == IF chars = <<>> THEN "" ELSE Head(chars) \o Concat(Tail(chars))

\* &input[from..to], a slice by byte offsets: <<the chars>>, or <<>> when
\* the slice panics (an offset past the end or inside a char, or from > to)
Slice(input, from, to) ==
    LET starts == {k \in 1..(Len(input) + 1) : ByteStart(input, k) = from}
        ends == {k \in 1..(Len(input) + 1) : ByteStart(input, k) = to}
    IN  IF from <= to /\ starts # {} /\ ends # {}
        THEN <<SubSeq(input, CHOOSE k \in starts : TRUE, (CHOOSE k \in ends : TRUE) - 1)>>
        ELSE <<>>

LRes(l, tok, st) == [l |-> l, tok |-> tok, st |-> st]

\* Lexer::peek_char: <<the char>>, or <<>> when chars().nth() is None and
\* unwrap panics
peek_char(l) ==
    IF l.read_position >= ByteLen(l.input) THEN <<Nul>>
    ELSE IF l.read_position < Len(l.input) THEN <<l.input[l.read_position + 1]>>
    ELSE <<>>

\* Lexer::read_char
read_char(l, checks) ==
    LET c == peek_char(l) IN
    IF c = <<>> THEN LRes(l, <<>>, "panic")
    ELSE LET m == [l EXCEPT !.ch = c[1], !.position = l.read_position] IN
         IF l.read_position + 1 > MaxUsize
         THEN IF checks THEN LRes(m, <<>>, "panic")
              ELSE LRes([m EXCEPT !.read_position = 0], <<>>, "ok")
         ELSE LRes([m EXCEPT !.read_position = l.read_position + 1], <<>>, "ok")

\* Lexer::new
LexerNew(input, checks) ==
    read_char([input |-> input, position |-> 0, read_position |-> 0, ch |-> Nul], checks)

RECURSIVE skip_whitespace(_, _)
\* Lexer::skip_whitespace
skip_whitespace(l, checks) ==
    IF l.ch \in AsciiWhitespace
    THEN LET r == read_char(l, checks) IN
         IF r.st # "ok" THEN r ELSE skip_whitespace(r.l, checks)
    ELSE LRes(l, <<>>, "ok")

\* token::lookup_ident
lookup_ident(ident) ==
    CASE ident = "fn" -> Tok("Function")
      [] ident = "let" -> Tok("Let")
      [] ident = "true" -> Tok("True")
      [] ident = "false" -> Tok("False")
      [] ident = "if" -> Tok("If")
      [] ident = "else" -> Tok("Else")
      [] ident = "return" -> Tok("Return")
      [] OTHER -> TokIdent(ident)

RECURSIVE ReadWhile(_, _, _)
\* while is_letter(self.ch) { self.read_char(); }, and the same for is_digit
ReadWhile(l, class, checks) ==
    IF l.ch \in class
    THEN LET r == read_char(l, checks) IN
         IF r.st # "ok" THEN r ELSE ReadWhile(r.l, class, checks)
    ELSE LRes(l, <<>>, "ok")

\* Lexer::read_identifier
read_identifier(l, checks) ==
    LET r == ReadWhile(l, AsciiLetters \cup {"_"}, checks) IN
    IF r.st # "ok" THEN r ELSE
    LET text == Slice(l.input, l.position, r.l.position) IN
    IF text = <<>> THEN LRes(r.l, <<>>, "panic")
    ELSE LRes(r.l, <<lookup_ident(Concat(text[1]))>>, "ok")

DigitValue(ch) ==
    CASE ch = "0" -> 0 [] ch = "1" -> 1 [] ch = "2" -> 2 [] ch = "3" -> 3 [] ch = "4" -> 4
      [] ch = "5" -> 5 [] ch = "6" -> 6 [] ch = "7" -> 7 [] ch = "8" -> 8 [] OTHER -> 9

RECURSIVE DigitsValue(_, _)
\* the digits read from the left, as far as an integer of IntBits bits holds them
DigitsValue(digits, acc) ==
    IF digits = <<>> THEN <<acc>>
    ELSE IF acc * 10 + DigitValue(Head(digits)) > MaxInt THEN <<>>
    ELSE DigitsValue(Tail(digits), acc * 10 + DigitValue(Head(digits)))

\* str::parse::<i64>: <<the integer>>, or <<>> for an Err
ParseInt(chars) ==
    LET signed == chars # <<>> /\ Head(chars) \in {"+", "-"}
        digits == IF signed THEN Tail(chars) ELSE chars
        v == IF digits # <<>> /\ \A k \in 1..Len(digits) : is_digit(digits[k])
             THEN DigitsValue(digits, 0) ELSE <<>>
    IN  IF v # <<>> /\ signed /\ Head(chars) = "-" THEN <<0 - v[1]>> ELSE v

\* Lexer::read_number
read_number(l, checks) ==
    LET r == ReadWhile(l, AsciiDigits, checks) IN
    IF r.st # "ok" THEN r ELSE
    LET text == Slice(l.input, l.position, r.l.position) IN
    IF text = <<>> THEN LRes(r.l, <<>>, "panic") ELSE
    LET v == ParseInt(text[1]) IN
    IF v = <<>> THEN LRes(r.l, <<>>, "panic") ELSE LRes(r.l, <<TokInt(v[1])>>, "ok")

\* Lexer::next_token, the arms of one char
SingleCharToken(ch) ==
    CASE ch = "+" -> Tok("Plus")
      [] ch = "-" -> Tok("Minus")
      [] ch = "*" -> Tok("Asterisk")
      [] ch = "/" -> Tok("Slash")
      [] ch = "<" -> Tok("Lt")
      [] ch = ">" -> Tok("Gt")
      [] ch = "," -> Tok("Comma")
      [] ch = ";" -> Tok("Semicolon")
      [] ch = "(" -> Tok("Lparen")
      [] ch = ")" -> Tok("Rparen")
      [] ch = "{" -> Tok("Lbrace")
      [] ch = "}" -> Tok("Rbrace")
      [] ch = Nul -> Tok("Eof")
      [] OTHER -> Tok("Illegal")

\* Lexer::next_token, the arms of = and !: two chars when = follows
TwoCharToken(l, one, two, checks) ==
    LET c == peek_char(l) IN
    IF c = <<>> THEN LRes(l, <<>>, "panic")
    ELSE IF c[1] = "="
         THEN LET r == read_char(l, checks) IN
              IF r.st # "ok" THEN r ELSE LRes(r.l, <<Tok(two)>>, "ok")
         ELSE LRes(l, <<Tok(one)>>, "ok")

\* Lexer::next_token
lexer_next_token(lx, checks) ==
    LET w == skip_whitespace(lx, checks) IN
    IF w.st # "ok" THEN w ELSE
    LET l == w.l IN
    IF l.ch \notin {"=", "!"} /\ SingleCharToken(l.ch) = Tok("Illegal") /\ is_letter(l.ch)
    THEN read_identifier(l, checks)
    ELSE IF l.ch \notin {"=", "!"} /\ SingleCharToken(l.ch) = Tok("Illegal") /\ is_digit(l.ch)
    THEN read_number(l, checks)
    ELSE LET t == CASE l.ch = "=" -> TwoCharToken(l, "Assign", "Eq", checks)
                    [] l.ch = "!" -> TwoCharToken(l, "Bang", "NotEq", checks)
                    [] OTHER -> LRes(l, <<SingleCharToken(l.ch)>>, "ok")
         IN  IF t.st # "ok" THEN t ELSE
             LET r == read_char(t.l, checks) IN
             IF r.st # "ok" THEN r ELSE LRes(r.l, t.tok, "ok")

----------------------------------------------------------------------------
(* The parser, src/parser/mod.rs.  A Parser is the record                  *)
(*   [toks, at, cur, peek, errors]                                         *)
(* where toks and at stand for its Lexer: the tokens of the text and how   *)
(* many of them have been handed out; past them the Lexer hands out Eof.   *)
(* A parse function returns [p, r, st]: the Parser it leaves, its Option   *)
(* (<<>> is None) and "ok", or "panic" when it aborted the process, or     *)
(* "hang" when it entered a loop that no token ends.                       *)

\* enum Precedence
Lowest == 0
Equals == 1
LessGreater == 2
Sum == 3
Product == 4
Prefix == 5
Call == 6

\* Lexer::next_token, seen from the parser
LexerNext(p) == IF p.at < Len(p.toks) THEN p.toks[p.at + 1] ELSE Tok("Eof")

\* Parser::next_token
next_token(p) == [p EXCEPT !.cur = p.peek, !.peek = LexerNext(p), !.at = p.at + 1]

\* Parser::new
ParserNew(toks) ==
    next_token(next_token(
        [toks |-> toks, at |-> 0, cur |-> Tok("Illegal"), peek |-> Tok("Illegal"),
         errors |-> <<>>]))

\* a precedence table that ranks every operator alike
precedence_for_Flat(tok) ==
    IF tok.t \in {"Eq", "NotEq", "Lt", "Gt", "Plus", "Minus", "Slash", "Asterisk"}
    THEN Sum ELSE Lowest

\* Parser::precedence_for
precedence_for(tok) ==
    CASE tok.t \in {"Eq", "NotEq"} -> Equals
      [] tok.t \in {"Lt", "Gt"} -> LessGreater
      [] tok.t \in {"Plus", "Minus"} -> Sum
      [] tok.t \in {"Slash", "Asterisk"} -> Product
      [] OTHER -> Lowest

\* Parser::peek_error
peek_error(p, tok) ==
    [p EXCEPT !.errors = Append(p.errors,
        "expected next token to be " \o TokenDebug(tok) \o ", got "
        \o TokenDebug(p.peek) \o " instead")]

\* Parser::expect_peek: [ok, p]
expect_peek(p, tok) ==
    IF p.peek = tok THEN [ok |-> TRUE, p |-> next_token(p)]
    ELSE [ok |-> FALSE, p |-> peek_error(p, tok)]

PRes(p, r, st) == [p |-> p, r |-> r, st |-> st]
\* Option::unwrap on a parsed expression
PUnwrap(x) == IF x.st = "ok" /\ x.r = <<>> THEN PRes(x.p, <<>>, "panic") ELSE x

\* no token is left: every later token is Eof
Exhausted(p) == p.cur.t = "Eof" /\ p.peek.t = "Eof" /\ p.at >= Len(p.toks)

RECURSIVE SkipToSemicolon(_)
\* while self.cur_token != Token::Semicolon { self.next_token(); }
SkipToSemicolon(p) ==
    IF p.cur.t = "Semicolon" THEN PRes(p, <<>>, "ok")
    ELSE IF Exhausted(p) THEN PRes(p, <<>>, "hang")
    ELSE SkipToSemicolon(next_token(p))

RECURSIVE parse_expression(_, _)
RECURSIVE InfixLoop(_, _, _)
RECURSIVE parse_statement(_)
RECURSIVE BlockStatementLoop(_, _)

\* Parser::parse_block_statement: r is <<block>>
parse_block_statement(p) == BlockStatementLoop(next_token(p), <<>>)

\* Parser::parse_expression, the Token::If arm
ParseIf(p) ==
    LET e1 == expect_peek(p, Tok("Lparen")) IN
    IF ~e1.ok THEN PRes(e1.p, <<>>, "ok") ELSE
    LET c == PUnwrap(parse_expression(next_token(e1.p), Lowest)) IN
    IF c.st # "ok" THEN c ELSE
    LET e2 == expect_peek(c.p, Tok("Rparen")) IN
    IF ~e2.ok THEN PRes(e2.p, <<>>, "ok") ELSE
    LET e3 == expect_peek(e2.p, Tok("Lbrace")) IN
    IF ~e3.ok THEN PRes(e3.p, <<>>, "ok") ELSE
    LET b == parse_block_statement(e3.p) IN
    IF b.st # "ok" THEN b ELSE
    IF b.p.peek.t = "Else"
    THEN LET e4 == expect_peek(next_token(b.p), Tok("Lbrace")) IN
         IF ~e4.ok THEN PRes(e4.p, <<>>, "ok") ELSE
         LET a == parse_block_statement(e4.p) IN
         IF a.st # "ok" THEN a
         ELSE PRes(a.p, <<ExprIf(c.r[1], b.r[1], <<a.r[1]>>)>>, "ok")
    ELSE PRes(b.p, <<ExprIf(c.r[1], b.r[1], <<>>)>>, "ok")

\* Parser::parse_expression, the match on self.cur_token
ParsePrefixPosition(p) ==
    CASE p.cur.t = "Ident" -> PRes(p, <<ExprLiteral(p.cur.s)>>, "ok")
      [] p.cur.t = "Int" -> PRes(p, <<ExprInt(p.cur.n)>>, "ok")
      [] p.cur.t \in {"True", "False"} -> PRes(p, <<ExprBoolean(p.cur.t = "True")>>, "ok")
      [] p.cur.t = "Lparen" ->
           LET e == PUnwrap(parse_expression(next_token(p), Lowest)) IN
           IF e.st # "ok" THEN e ELSE
           LET x == expect_peek(e.p, Tok("Rparen")) IN
           IF ~x.ok THEN PRes(x.p, <<>>, "ok") ELSE PRes(x.p, e.r, "ok")
      [] p.cur.t \in {"Bang", "Minus"} ->
           LET e == PUnwrap(parse_expression(next_token(p), Prefix)) IN
           IF e.st # "ok" THEN e
           ELSE PRes(e.p, <<ExprPrefix(TokenDisplay(p.cur), e.r[1])>>, "ok")
      [] p.cur.t = "If" -> ParseIf(p)
      [] OTHER ->
           PRes([p EXCEPT !.errors = Append(p.errors,
                    "undefined expression for " \o TokenDisplay(p.cur) \o " found")],
                <<>>, "ok")

\* Parser::parse_expression, the while loop over the infix operators
InfixLoop(p, left_expr, pre) ==
    IF p.peek.t # "Semicolon" /\ pre < precedence_for(p.peek)
    THEN IF p.peek.t \in {"Plus", "Minus", "Slash", "Asterisk", "Eq", "NotEq", "Lt", "Gt"}
         THEN LET p1 == next_token(p)
                  e == PUnwrap(parse_expression(next_token(p1), precedence_for(p1.cur)))
              IN IF e.st # "ok" THEN e
                 ELSE InfixLoop(e.p, ExprInfix(left_expr, TokenDisplay(p1.cur), e.r[1]), pre)
         ELSE PRes(p, <<left_expr>>, "ok")
    ELSE PRes(p, <<left_expr>>, "ok")

\* Parser::parse_expression
parse_expression(p, pre) ==
    LET l == ParsePrefixPosition(p) IN
    IF l.st # "ok" \/ l.r = <<>> THEN l ELSE InfixLoop(l.p, l.r[1], pre)

\* Parser::parse_let_statement
parse_let_statement(p) ==
    IF p.peek.t = "Ident"
    THEN LET x == expect_peek(next_token(p), Tok("Assign")) IN
         IF ~x.ok THEN PRes(x.p, <<>>, "ok") ELSE
         LET e == PUnwrap(parse_expression(next_token(x.p), Lowest)) IN
         IF e.st # "ok" THEN e ELSE
         LET k == SkipToSemicolon(e.p) IN
         IF k.st # "ok" THEN k
         ELSE PRes(k.p, <<StmtLet(p.peek.s, e.r[1])>>, "ok")
    ELSE PRes(peek_error(p, TokIdent("")), <<>>, "ok")

\* Parser::parse_return_statement
parse_return_statement(p) ==
    LET k == SkipToSemicolon(next_token(p)) IN
    IF k.st # "ok" THEN k
    ELSE PRes(k.p, <<StmtReturn(ExprLiteral(""))>>, "ok")

\* Parser::parse_expression_statement
parse_expression_statement(p) ==
    LET e == parse_expression(p, Lowest) IN
    IF e.st # "ok" \/ e.r = <<>> THEN e
    ELSE PRes(IF e.p.peek.t = "Semicolon" THEN next_token(e.p) ELSE e.p,
              <<StmtExpression(e.r[1])>>, "ok")

\* Parser::parse_statement
parse_statement(p) ==
    CASE p.cur.t = "Let" -> parse_let_statement(p)
      [] p.cur.t = "Return" -> parse_return_statement(p)
      [] OTHER -> parse_expression_statement(p)

\* Parser::parse_block_statement, the while loop
BlockStatementLoop(p, block_stmt) ==
    IF p.cur.t # "Rbrace" /\ p.cur.t # "Eof"
    THEN LET x == parse_statement(p) IN
         IF x.st # "ok" THEN x
         ELSE BlockStatementLoop(next_token(x.p), block_stmt \o x.r)
    ELSE PRes(p, <<block_stmt>>, "ok")

----------------------------------------------------------------------------
(* The statements programs are made of.                                    *)

Idents == {"x", "y"}

TrueE == ExprBoolean(TRUE)
FalseE == ExprBoolean(FALSE)
\* true + false: "mismatch expression operation"
MismatchE == ExprInfix(TrueE, "+", FalseE)

Leaves == {ExprInt(1), ExprInt(MaxInt), TrueE, FalseE, ExprLiteral("x"), ExprLiteral("y")}

Operations ==
    {ExprInfix(a, op, b) : a \in {ExprLiteral("x"), ExprInt(1)}, op \in {"+", "/"},
                           b \in {ExprInt(MaxInt), ExprInt(0), TrueE}}
    \cup {ExprPrefix(op, a) : op \in {"!", "-"}, a \in {ExprLiteral("x"), TrueE}}

\* statements of a block, and the blocks made of them
BlockStmts ==
    {StmtExpression(e) : e \in {ExprInt(10), ExprLiteral("x"), MismatchE}}
    \cup {StmtReturn(e) : e \in {ExprInt(10), ExprLiteral("x"), MismatchE}}
    \cup {StmtLet("y", ExprInt(1))}

BlockTails == {StmtExpression(ExprInt(2)), StmtReturn(ExprInt(1))}

Blocks ==
    {<<>>} \cup {<<s>> : s \in BlockStmts}
    \cup {<<s, t>> : s \in BlockStmts, t \in BlockTails}

Conds == {TrueE, FalseE, ExprLiteral("x")}
Alternatives == {<<>>, <<<<StmtReturn(ExprInt(11))>>>>}

\* conditionals over blocks of plain statements
If1 == {ExprIf(c, b, a) : c \in Conds, b \in Blocks, a \in Alternatives}
       \cup {ExprIf(FalseE, <<StmtExpression(ExprInt(10))>>, <<<<>>>>)}

\* conditionals whose block holds a conditional, then at most one more statement
Inner1 == {ExprIf(c, b, <<>>) : c \in {TrueE, ExprLiteral("x")},
                                b \in {<<StmtReturn(ExprInt(10))>>,
                                       <<StmtExpression(ExprInt(10))>>,
                                       <<StmtReturn(MismatchE)>>}}
If2 == {ExprIf(TrueE, <<StmtExpression(i)>> \o t, a) :
            i \in Inner1, t \in {<<>>} \cup {<<s>> : s \in BlockTails}, a \in Alternatives}
Inner2 == {ExprIf(TrueE, <<StmtExpression(i)>>, <<>>) : i \in Inner1}
If3 == {ExprIf(TrueE, <<StmtExpression(i)>> \o t, <<>>) :
            i \in Inner2, t \in {<<>>} \cup {<<s>> : s \in BlockTails}}

Exprs == Leaves \cup Operations \cup If1 \cup If2 \cup If3

\* expressions of a top-level return
ReturnExprs ==
    Leaves \cup Operations \cup Inner1 \cup Inner2
    \cup {ExprIf(c, b, <<>>) : c \in Conds, b \in {<<>>, <<StmtLet("y", ExprInt(1))>>}}

\* initializers of let x
LetInits ==
    {ExprInt(1), TrueE, ExprLiteral("y"), MismatchE,
     ExprIf(TrueE, <<StmtReturn(ExprInt(10))>>, <<>>),
     ExprIf(FalseE, <<StmtExpression(ExprInt(10))>>, <<>>),
     ExprIf(TrueE, <<StmtExpression(MismatchE)>>, <<>>),
     ExprIf(TrueE, <<StmtLet("y", ExprInt(1))>>, <<>>)}

TopStmts ==
    {StmtExpression(e) : e \in Exprs}
    \cup {StmtReturn(e) : e \in ReturnExprs}
    \cup {StmtLet("x", e) : e \in LetInits}
    \cup {StmtLet("y", e) : e \in {ExprInt(2), ExprLiteral("x")}}

----------------------------------------------------------------------------
(* The statements of SpecExpr: operators and conditionals over operands    *)
(* of every kind.                                                          *)

\* if (false) { 10 }: Null
NullE == ExprIf(FalseE, <<StmtExpression(ExprInt(10))>>, <<>>)
\* if (true) { return 7; }: the return signal Return(Integer(7))
RetE == ExprIf(TrueE, <<StmtReturn(ExprInt(7))>>, <<>>)
\* -1
NegOneE == ExprPrefix("-", ExprInt(1))

Operands ==
    {ExprInt(0), ExprInt(1), ExprInt(MaxInt), TrueE, FalseE, ExprLiteral("x"),
     ExprLiteral("y"), NullE, RetE, MismatchE, NegOneE}

InfixOps == {"+", "-", "*", "/", "<", ">", "==", "!="}

PrefixExprs == {ExprPrefix(op, a) : op \in {"!", "-"}, a \in Operands}
PrefixPrefixExprs == {ExprPrefix(op, a) : op \in {"!", "-"}, a \in PrefixExprs}
InfixExprs == {ExprInfix(a, op, b) : a \in Operands, op \in InfixOps, b \in Operands}

XConsequences ==
    {<<>>, <<StmtExpression(ExprInt(10))>>, <<StmtReturn(ExprInt(10))>>,
     <<StmtLet("x", ExprInt(1)), StmtExpression(ExprLiteral("x"))>>}
XAlternatives ==
    {<<>>, <<<<StmtExpression(ExprInt(20))>>>>,
     <<<<StmtLet("y", ExprInt(1)), StmtExpression(ExprInt(20))>>>>}
IfExprs == {ExprIf(c, b, a) : c \in Operands, b \in XConsequences, a \in XAlternatives}

XExprs == Operands \cup PrefixExprs \cup PrefixPrefixExprs \cup InfixExprs \cup IfExprs

XStmts ==
    {StmtExpression(e) : e \in XExprs}
    \cup {StmtReturn(e) : e \in Operands \cup IfExprs}
    \cup {StmtLet("y", e) : e \in Operands \cup IfExprs}

\* what x is bound to when the program starts
XValues ==
    {ObjInteger(0), ObjInteger(5), ObjInteger(MinInt), ObjBoolean(TRUE), ObjNull,
     ObjReturn(ObjInteger(1))}
XEnvs == {EnvironmentNew} \cup {EnvInsert(EnvironmentNew, "x", o) : o \in XValues}

----------------------------------------------------------------------------
(* repl::start and eval_program as a state machine.                        *)

\* nothing bound yet
NoBinding == [name \in Idents |-> <<>>]

\* the evaluator before the first line is read
EvalIdle ==
    /\ env = EnvironmentNew
    /\ ip = 0
    /\ result = <<>>
    /\ status = "idle"
    /\ envBefore = EnvironmentNew
    /\ trace = <<>>
    /\ bound = NoBinding
    /\ lineNo = 0

\* no parser at work
ParseOff ==
    /\ parser = ParserNew(<<>>)
    /\ parsed = <<>>
    /\ pstatus = "off"

\* no lexer at work
LexOff ==
    /\ lexer = LexerNew(<<>>, FALSE).l
    /\ ltok = <<>>
    /\ lstatus = "off"
    /\ atEof = <<>>
    /\ lcalls = 0

\* no statement singled out, nothing written, the reader not at end of input
ExprOff == xstmt = StmtExpression(ExprInt(0)) /\ out = <<>> /\ eof = FALSE

Init ==
    /\ EvalIdle
    /\ overflow_checks \in BOOLEAN
    /\ ParseOff
    /\ LexOff
    /\ ExprOff

\* repl::start: the next line's Program goes to eval_program, with the same env
ReplReadLine ==
    /\ status \in {"idle", "returned"}
    /\ lineNo < MaxLines
    /\ lineNo' = lineNo + 1
    /\ status' = "running"
    /\ ip' = 0
    /\ result' = <<>>
    /\ trace' = <<>>
    /\ envBefore' = env
    /\ UNCHANGED <<env, bound, overflow_checks, parseVars, lexVars, exprVars, replVars>>

\* the events of one top-level statement
StmtTrace(stmt, r) == <<EvBegin(stmt)>> \o r.tr \o <<EvEnd(stmt, r.o)>>

\* eval_program, Statement::Expression(expr)
EvalExpressionStatement(stmt) ==
    /\ status = "running"
    /\ ip < MaxStmts
    /\ stmt.k = "Expression"
    /\ LET r == eval_expression(stmt.e, env, overflow_checks) IN
       /\ envBefore' = env
       /\ trace' = StmtTrace(stmt, r)
       /\ env' = r.env
       /\ ip' = ip + 1
       /\ CASE IsPanic(r.o) -> status' = "panicked" /\ result' = <<r.o>>
            [] IsReturn(r.o) -> status' = "returned" /\ result' = <<r.o.inner[1]>>
            [] IsError(r.o) -> status' = "returned" /\ result' = <<r.o>>
            [] OTHER -> status' = "running" /\ result' = <<r.o>>
    /\ UNCHANGED <<bound, lineNo, overflow_checks, parseVars, lexVars, exprVars, replVars>>

\* eval_program, Statement::Let(ident, expr)
EvalLetStatement(stmt) ==
    /\ status = "running"
    /\ ip < MaxStmts
    /\ stmt.k = "Let"
    /\ LET r == eval_expression(stmt.e, env, overflow_checks) IN
       /\ envBefore' = env
       /\ trace' = StmtTrace(stmt, r)
       /\ ip' = ip + 1
       /\ CASE IsPanic(r.o) ->
                 /\ status' = "panicked" /\ result' = <<r.o>>
                 /\ env' = r.env /\ bound' = bound
            [] IsError(r.o) ->
                 /\ status' = "returned" /\ result' = <<r.o>>
                 /\ env' = r.env /\ bound' = bound
            [] OTHER ->
                 /\ status' = "running" /\ result' = <<>>
                 /\ env' = EnvInsert(r.env, stmt.id, r.o)
                 /\ bound' = [bound EXCEPT ![stmt.id] = <<r.o>>]
    /\ UNCHANGED <<lineNo, overflow_checks, parseVars, lexVars, exprVars, replVars>>

\* eval_program, Statement::Return(expr)
EvalReturnStatement(stmt) ==
    /\ status = "running"
    /\ ip < MaxStmts
    /\ stmt.k = "Return"
    /\ LET r == eval_expression(stmt.e, env, overflow_checks) IN
       /\ envBefore' = env
       /\ trace' = StmtTrace(stmt, r)
       /\ env' = r.env
       /\ ip' = ip + 1
       /\ result' = <<r.o>>
       /\ status' = IF IsPanic(r.o) THEN "panicked" ELSE "returned"
    /\ UNCHANGED <<bound, lineNo, overflow_checks, parseVars, lexVars, exprVars, replVars>>

\* eval_program: the loop is out of statements and result is returned
EvalProgramEnd ==
    /\ status = "running"
    /\ status' = "returned"
    /\ UNCHANGED <<env, ip, result, envBefore, trace, bound, lineNo, overflow_checks, parseVars, lexVars, exprVars, replVars>>

Next ==
    \/ ReplReadLine
    \/ \E stmt \in TopStmts : EvalExpressionStatement(stmt)
    \/ \E stmt \in TopStmts : EvalLetStatement(stmt)
    \/ \E stmt \in TopStmts : EvalReturnStatement(stmt)
    \/ EvalProgramEnd

Spec == Init /\ [][Next]_vars

----------------------------------------------------------------------------
(* eval_program over the programs <<xstmt>>, <<xstmt, xstmt>>, ...         *)

InitExpr ==
    /\ env \in XEnvs
    /\ ip = 0
    /\ result = <<>>
    /\ status = "running"
    /\ envBefore = env
    /\ trace = <<>>
    /\ bound = [name \in Idents |-> EnvGet(env, name)]
    /\ lineNo = 1
    /\ overflow_checks \in BOOLEAN
    /\ ParseOff
    /\ LexOff
    /\ xstmt \in XStmts
    /\ out = <<>>
    /\ eof = FALSE

NextExpr ==
    \/ EvalExpressionStatement(xstmt)
    \/ EvalLetStatement(xstmt)
    \/ EvalReturnStatement(xstmt)
    \/ EvalProgramEnd

SpecExpr == InitExpr /\ [][NextExpr]_vars

----------------------------------------------------------------------------
(* The token sequences handed to the parser.                               *)

\* tokens of any one text
MaxToks == 3

TA == TokIdent("a")
TB == TokIdent("b")
TC == TokIdent("c")
TX == TokIdent("x")

AtomToks == {TA, TokInt(1), Tok("True")}
BinOpToks == {Tok(k) : k \in {"Plus", "Minus", "Asterisk", "Slash", "Lt", "Gt", "Eq", "NotEq"}}
PrefixToks == {Tok("Bang"), Tok("Minus")}

\* a op1 b op2 c, with a prefix operator, and with parentheses
PrecInputs ==
    {<<a, o1, b, o2, c>> : a \in AtomToks, b \in AtomToks, c \in AtomToks,
                           o1 \in BinOpToks, o2 \in BinOpToks}
    \cup {<<q, TA, o1, TB>> : q \in PrefixToks, o1 \in BinOpToks}
    \cup {<<TA, o1, q, TB, o2, TC>> : q \in PrefixToks, o1 \in BinOpToks, o2 \in BinOpToks}
    \cup {<<TA, o1, Tok("Lparen"), TB, o2, TC, Tok("Rparen")>> :
              o1 \in BinOpToks, o2 \in BinOpToks}
    \cup {<<Tok("Lparen"), TA, o1, TB, Tok("Rparen"), o2, TC>> :
              o1 \in BinOpToks, o2 \in BinOpToks}

\* every text of at most MaxToks of these tokens
SmallToks ==
    {TX, TokInt(1), Tok("Plus"), Tok("Bang"), Tok("Lparen"), Tok("Rparen"),
     Tok("Semicolon"), Tok("Let"), Tok("Assign"), Tok("Return")}
ShortInputs == UNION {[1..n -> SmallToks] : n \in 0..MaxToks}

\* statements: let x = e, return e and e, with and without the semicolon, the
\* expression e whole, cut short or missing
ExprTexts ==
    {<<>>, <<TokInt(9)>>, <<TokInt(2), Tok("Asterisk"), TokInt(5)>>, <<Tok("Minus")>>,
     <<TokInt(9), Tok("Plus")>>, <<Tok("Lparen")>>, <<Tok("Lparen"), TX, Tok("Rparen")>>,
     <<Tok("If"), Tok("Lparen"), Tok("Rparen")>>}
Terminators == {<<>>, <<Tok("Semicolon")>>}
StmtTexts ==
    {<<Tok("Let"), TX, Tok("Assign")>> \o e \o t : e \in ExprTexts, t \in Terminators}
    \cup {<<Tok("Return")>> \o e \o t : e \in ExprTexts, t \in Terminators}
    \cup {e \o t : e \in ExprTexts, t \in Terminators}
\* a conditional around a statement, and around two
BlockTexts ==
    {<<Tok("If"), Tok("Lparen"), TX, Tok("Rparen"), Tok("Lbrace")>> \o b \o <<Tok("Rbrace")>> \o r :
        b \in StmtTexts,
        r \in {<<>>, <<Tok("Else"), Tok("Lbrace"), TokInt(9), Tok("Rbrace")>>,
               <<Tok("Semicolon"), TokInt(9)>>}}
StmtInputs ==
    StmtTexts \cup BlockTexts \cup {s1 \o s2 : s1 \in StmtTexts, s2 \in StmtTexts}

ParserInputs == PrecInputs \cup ShortInputs \cup StmtInputs

----------------------------------------------------------------------------
(* Parser::new and parse_program as a state machine.                       *)

InitParse ==
    /\ EvalIdle
    /\ overflow_checks = FALSE
    /\ parser \in {ParserNew(t) : t \in ParserInputs}
    /\ parsed = <<>>
    /\ pstatus = "parsing"
    /\ LexOff
    /\ ExprOff

\* parse_program: what its loop does with the statement parse_statement returned
PushStatement(x) ==
    /\ parser' = IF x.st = "ok" THEN next_token(x.p) ELSE x.p
    /\ parsed' = IF x.st = "ok" THEN parsed \o x.r ELSE parsed
    /\ pstatus' = CASE x.st = "ok" -> "parsing"
                    [] x.st = "panic" -> "panicked"
                    [] OTHER -> "hung"
    /\ UNCHANGED <<evalVars, overflow_checks, lexVars, exprVars, replVars>>

\* parse_program, a let statement
ParseLetStatement ==
    /\ pstatus = "parsing"
    /\ parser.cur.t = "Let"
    /\ PushStatement(parse_statement(parser))

\* parse_program, a return statement
ParseReturnStatement ==
    /\ pstatus = "parsing"
    /\ parser.cur.t = "Return"
    /\ PushStatement(parse_statement(parser))

\* parse_program, an expression statement
ParseExpressionStatement ==
    /\ pstatus = "parsing"
    /\ parser.cur.t \notin {"Let", "Return", "Eof"}
    /\ PushStatement(parse_statement(parser))

\* parse_program: cur_token is Eof, the program is returned
ParseProgramEnd ==
    /\ pstatus = "parsing"
    /\ parser.cur.t = "Eof"
    /\ pstatus' = "done"
    /\ UNCHANGED <<parser, parsed, evalVars, overflow_checks, lexVars, exprVars, replVars>>

NextParse ==
    \/ ParseLetStatement
    \/ ParseReturnStatement
    \/ ParseExpressionStatement
    \/ ParseProgramEnd

SpecParse == InitParse /\ [][NextParse]_vars

----------------------------------------------------------------------------
(* repl::start, line by line: SpecRepl.                                    *)

PROMPT == ">> "

\* the lines a session is made of
ReplLines ==
    {<<>>,
     <<Tok("Let"), TX, Tok("Assign"), TokInt(1), Tok("Semicolon")>>,
     <<Tok("Let"), TX, Tok("Assign"), Tok("True"), Tok("Semicolon"), TX>>,
     <<TX>>,
     <<TX, Tok("Plus"), TokInt(1), Tok("Semicolon")>>,
     <<Tok("If"), Tok("Lparen"), TX, Tok("Rparen"), Tok("Lbrace"), TokInt(1), Tok("Rbrace")>>,
     <<Tok("Return"), TokInt(1), Tok("Semicolon")>>,
     <<Tok("Let"), TokInt(9)>>,
     <<Tok("Let"), TX, Tok("Assign"), TokInt(9), Tok("Semicolon"), Tok("Let"), TokInt(9)>>,
     <<Tok("Let"), TX, TokInt(9), Tok("Semicolon"), Tok("Rparen")>>,
     <<Tok("Lparen"), TokInt(1)>>,
     <<Tok("Rparen")>>,
     <<TX, Tok("Plus")>>,
     <<Tok("Let"), TX, Tok("Assign"), TokInt(9)>>}

\* a test for parse errors that finds none
HasErrors_Never(p) == FALSE

\* parser.errors().len() > 0
HasErrors(p) == Len(p.errors) > 0

\* writeln!(writer, "\t{}", err) for each error
ErrorLines(p) == [i \in 1..Len(p.errors) |-> "\t" \o p.errors[i] \o "\n"]

InitRepl ==
    /\ EvalIdle
    /\ overflow_checks \in BOOLEAN
    /\ ParseOff
    /\ LexOff
    /\ ExprOff

\* one turn of the loop begins: the prompt, read_line, Lexer::new, Parser::new;
\* parse_program then runs statement by statement
ReplStartLine(line) ==
    /\ status = "idle"
    /\ pstatus = "off"
    /\ lineNo < MaxLines
    /\ ~eof
    /\ parser' = ParserNew(line)
    /\ parsed' = <<>>
    /\ pstatus' = "parsing"
    /\ out' = <<PROMPT>>
    /\ lineNo' = lineNo + 1
    /\ ip' = 0
    /\ result' = <<>>
    /\ trace' = <<>>
    /\ envBefore' = env
    /\ UNCHANGED <<env, status, bound, overflow_checks, lexVars, xstmt, eof>>

\* one turn of the loop at the end of input: the prompt, then read_line returns
\* Ok(0) and leaves line empty (is_err() is false), Lexer::new(""), Parser::new
ReplReadEof ==
    /\ status = "idle"
    /\ pstatus = "off"
    /\ eof' = TRUE
    /\ parser' = ParserNew(<<>>)
    /\ parsed' = <<>>
    /\ pstatus' = "parsing"
    /\ out' = <<PROMPT>>
    /\ ip' = 0
    /\ result' = <<>>
    /\ trace' = <<>>
    /\ envBefore' = env
    /\ UNCHANGED <<env, status, bound, lineNo, overflow_checks, lexVars, xstmt>>

\* parse_program, one turn of its loop: a statement is parsed and pushed
ReplParseStatement ==
    /\ pstatus = "parsing"
    /\ parser.cur.t # "Eof"
    /\ PushStatement(parse_statement(parser))

\* parse_program has returned: the errors are written and the loop continues,
\* or the program goes to eval_program
ReplAfterParse ==
    /\ status = "idle"
    /\ pstatus = "done"
    /\ pstatus' = "off"
    /\ IF HasErrors(parser)
       THEN out' = out \o ErrorLines(parser) /\ status' = "idle"
       ELSE out' = out /\ status' = "running"
    /\ UNCHANGED <<env, ip, result, envBefore, trace, bound, lineNo, overflow_checks,
                   parser, parsed, lexVars, xstmt, eof>>

\* eval_program has returned: writeln!(writer, "{}", evaluated) for Some(evaluated)
ReplWriteResult ==
    /\ status = "returned"
    /\ out' = IF result # <<>> THEN Append(out, to_string(result[1]) \o "\n") ELSE out
    /\ status' = "idle"
    /\ UNCHANGED <<env, ip, result, envBefore, trace, bound, lineNo, overflow_checks,
                   parseVars, lexVars, xstmt, eof>>

\* read_line is an Err: start returns
ReplReadError ==
    /\ status = "idle"
    /\ pstatus = "off"
    /\ status' = "ended"
    /\ out' = <<PROMPT>>
    /\ UNCHANGED <<env, ip, result, envBefore, trace, bound, lineNo, overflow_checks,
                   parseVars, lexVars, xstmt, eof>>

\* eval_program(program, &mut env): the statement the loop is at
ReplEvalStatement ==
    /\ status = "running"
    /\ ip < Len(parsed)
    /\ LET stmt == parsed[ip + 1] IN
       \/ EvalExpressionStatement(stmt)
       \/ EvalLetStatement(stmt)
       \/ EvalReturnStatement(stmt)

\* eval_program(program, &mut env): the loop has gone through the program
ReplEvalEnd ==
    /\ ip = Len(parsed)
    /\ EvalProgramEnd

NextRepl ==
    \/ \E line \in ReplLines : ReplStartLine(line)
    \/ ReplReadEof
    \/ ReplParseStatement
    \/ ParseProgramEnd
    \/ ReplAfterParse
    \/ ReplEvalStatement
    \/ ReplEvalEnd
    \/ ReplWriteResult
    \/ ReplReadError

SpecRepl == InitRepl /\ [][NextRepl]_vars

\* start runs on one thread that blocks nowhere but in read_line, and at the
\* end of input read_line returns at once: each step of the loop that can be
\* taken is taken.  A read error and the arrival of a line are left to the
\* reader; the parse of a statement is a step no turn at the end of input has,
\* its line being empty.
SpecReplLive ==
    /\ SpecRepl
    /\ WF_vars(eof /\ ReplReadEof)
    /\ WF_vars(ParseProgramEnd)
    /\ WF_vars(ReplAfterParse)
    /\ WF_vars(ReplEvalStatement)
    /\ WF_vars(ReplEvalEnd)
    /\ WF_vars(ReplWriteResult)

----------------------------------------------------------------------------
(* Lexer::new and the calls of Lexer::next_token as a state machine.       *)

\* chars of any one text
MaxChars == 3

TextChars == {"i", "f", "1", "9", " ", "=", "!", NonAscii, Nul}
Texts == UNION {[1..n -> TextChars] : n \in 0..MaxChars}

InitLex ==
    /\ EvalIdle
    /\ overflow_checks \in BOOLEAN
    /\ ParseOff
    /\ lexer \in {LexerNew(t, overflow_checks).l : t \in Texts}
    /\ ltok = <<>>
    /\ lstatus = "lexing"
    /\ atEof = <<>>
    /\ lcalls = 0
    /\ ExprOff

\* one call of Lexer::next_token
LexerNextToken ==
    /\ lstatus = "lexing"
    /\ LET r == lexer_next_token(lexer, overflow_checks) IN
       /\ lexer' = r.l
       /\ ltok' = r.tok
       /\ lstatus' = IF r.st = "ok" THEN "lexing" ELSE "panicked"
       /\ atEof' = IF atEof = <<>> /\ r.st = "ok" /\ r.tok = <<Tok("Eof")>>
                   THEN <<r.l>> ELSE atEof
    /\ lcalls' = IF atEof = <<>> THEN lcalls + 1 ELSE lcalls
    /\ UNCHANGED <<evalVars, overflow_checks, parseVars, exprVars, replVars>>

NextLex == LexerNextToken

SpecLex == InitLex /\ [][NextLex]_vars

----------------------------------------------------------------------------
(* Reading the trace of the last top-level statement.                      *)

\* the least index of tr whose event satisfies P, 0 when there is none
FirstIndex(tr, P(_)) ==
    LET S == {i \in 1..Len(tr) : P(tr[i])}
    IN IF S = {} THEN 0 ELSE CHOOSE i \in S : \A j \in S : i <= j

\* a return statement has run to its end and produced a value
ReturnExecuted(e) == e.ev = "E" /\ e.sk = "Return" /\ e.o[1].k \notin {"Error", "Panic"}
\* a statement has run to its end and produced an error signal
ErrorProduced(e) == e.ev = "E" /\ e.o[1].k = "Error"

FirstReturn == FirstIndex(trace, ReturnExecuted)
FirstError == FirstIndex(trace, ErrorProduced)

\* the number of blocks around the statement that ends at index i of the trace
Nesting(i) ==
    Cardinality({j \in 1..i : trace[j].ev = "B"})
    - Cardinality({j \in 1..(i - 1) : trace[j].ev = "E"}) - 1

\* some statement begins after index i of the trace
BeginsAfter(i) == \E j \in (i + 1)..Len(trace) : trace[j].ev = "B"

RECURSIVE Unwrapped(_)
\* a value with every return-signal wrapper taken off
Unwrapped(o) == IF o.k = "Return" THEN Unwrapped(o.inner[1]) ELSE o

----------------------------------------------------------------------------
(* Claims about the evaluator.                                             *)

\* C1: once a return statement has executed, at top level or in blocks nested
\* to any depth, eval_program has returned its value unwrapped and no
\* statement of an enclosing block or of the program began after it.
C1_ReturnStopsProgram ==
    FirstReturn > 0 =>
        /\ ~BeginsAfter(FirstReturn)
        /\ status = "returned"
        /\ result = <<Unwrapped(trace[FirstReturn].o[1])>>

\* C2: when a statement (an expression statement, a let initializer or a
\* return, nested or not) produces the first error signal, eval_program has
\* returned exactly that error, no statement began after it, and the
\* Environment is as it was when the top-level statement began.
C2_FirstErrorEndsProgram ==
    FirstError > 0 =>
        /\ ~BeginsAfter(FirstError)
        /\ status = "returned"
        /\ result = <<trace[FirstError].o[1]>>
        /\ env = envBefore

\* C2 witness: a let whose initializer failed inside a block, as second
\* statement of a program run with a binding already in the Environment.
C2_Witness ==
    /\ FirstError > 0
    /\ trace[1].sk = "Let"
    /\ Nesting(FirstError) >= 1
    /\ ip = 2
    /\ DOMAIN env # {}
    /\ status = "returned"

\* C3: an identifier evaluates to the value of its last completed top-level
\* let, in this program and in every later line, and an identifier no let
\* has bound evaluates to the error "identifier not found: <name>".
C3_IdentifierYieldsLastLet ==
    \A name \in Idents :
        eval_expression(ExprLiteral(name), env, overflow_checks).o =
            IF bound[name] # <<>> THEN bound[name][1]
            ELSE ObjError("identifier not found: " \o name)

\* C3 witness: on a later line, an expression statement has read x, which a
\* let has bound, while y is still unbound.
C3_Witness ==
    /\ lineNo >= 2
    /\ bound["x"] # <<>>
    /\ bound["y"] = <<>>
    /\ trace # <<>>
    /\ trace[1].sk = "Expression"
    /\ result = bound["x"]
    /\ envBefore = env

\* the aborts of integer arithmetic: a zero divisor, and a result out of range
ArithmeticAborts ==
    {"attempt to divide by zero", "attempt to divide with overflow", "arithmetic overflow"}

\* C7: eval_program never ends abnormally, whatever the operand kinds and
\* whatever block a conditional selects (an empty one, one of let statements
\* only); the aborts of integer arithmetic are set aside.
C7_NoAbnormalEnd ==
    status = "panicked" => result[1].msg \in ArithmeticAborts

\* C8: no identifier of the Environment is bound to a return signal or to an
\* error signal.
C8_NoSignalInEnvironment ==
    \A name \in DOMAIN env : env[name].k \notin {"Return", "Error"}

\* C12: eval_program returns None only for a program without statements;
\* after at least one statement it returns Some value.
C12_SomeUnlessEmpty ==
    (status = "returned" /\ ip >= 1) => result # <<>>

\* C18: the value eval_program returns is never a return signal.
C18_ResultIsNoReturnSignal ==
    (status = "returned" /\ result # <<>>) => result[1].k # "Return"

----------------------------------------------------------------------------
(* Claims about the parser, checked under SpecParse.                       *)

IsAtom(tok) == tok.t \in {"Ident", "Int", "True", "False"}
IsBinaryOp(tok) == tok.t \in {"Plus", "Minus", "Asterisk", "Slash", "Lt", "Gt", "Eq", "NotEq"}
IsPrefixOp(tok) == tok.t \in {"Bang", "Minus"}

\* the levels as the claim orders them: Equals < LessGreater < Sum < Product
LevelOf(tok) ==
    CASE tok.t \in {"Eq", "NotEq"} -> 1
      [] tok.t \in {"Lt", "Gt"} -> 2
      [] tok.t \in {"Plus", "Minus"} -> 3
      [] OTHER -> 4

AtomOf(tok) ==
    CASE tok.t = "Ident" -> ExprLiteral(tok.s)
      [] tok.t = "Int" -> ExprInt(tok.n)
      [] OTHER -> ExprBoolean(tok.t = "True")

\* a op1 b op2 c grouped by the levels of op1 and op2
Grouped(a, o1, b, o2, c) ==
    IF LevelOf(o2) <= LevelOf(o1)
    THEN ExprInfix(ExprInfix(a, TokenDisplay(o1), b), TokenDisplay(o2), c)
    ELSE ExprInfix(a, TokenDisplay(o1), ExprInfix(b, TokenDisplay(o2), c))

\* the text is one expression statement, this one, and no error was recorded
ParsedAs(expr) ==
    /\ pstatus \in {"parsing", "done"}
    /\ parsed # <<>> => parsed = <<StmtExpression(expr)>> /\ parser.errors = <<>>
    /\ pstatus = "done" => parsed # <<>>

\* C4: a op1 b op2 c parses into ((a op1 b) op2 c) when the level of op2 is at
\* most that of op1 and into (a op1 (b op2 c)) when it is higher; a prefix
\* operator binds tighter than every binary operator; a parenthesised
\* sub-expression is one operand.
C4_PrecedenceGrouping ==
    LET t == parser.toks
        n == Len(t)
    IN  /\ (n = 5 /\ IsAtom(t[1]) /\ IsBinaryOp(t[2]) /\ IsAtom(t[3]) /\ IsBinaryOp(t[4])
                  /\ IsAtom(t[5]))
           => ParsedAs(Grouped(AtomOf(t[1]), t[2], AtomOf(t[3]), t[4], AtomOf(t[5])))
        /\ (n = 4 /\ IsPrefixOp(t[1]) /\ IsAtom(t[2]) /\ IsBinaryOp(t[3]) /\ IsAtom(t[4]))
           => ParsedAs(ExprInfix(ExprPrefix(TokenDisplay(t[1]), AtomOf(t[2])),
                                 TokenDisplay(t[3]), AtomOf(t[4])))
        /\ (n = 6 /\ IsAtom(t[1]) /\ IsBinaryOp(t[2]) /\ IsPrefixOp(t[3]) /\ IsAtom(t[4])
                  /\ IsBinaryOp(t[5]) /\ IsAtom(t[6]))
           => ParsedAs(Grouped(AtomOf(t[1]), t[2],
                               ExprPrefix(TokenDisplay(t[3]), AtomOf(t[4])), t[5],
                               AtomOf(t[6])))
        /\ (n = 7 /\ IsAtom(t[1]) /\ IsBinaryOp(t[2]) /\ t[3].t = "Lparen" /\ IsAtom(t[4])
                  /\ IsBinaryOp(t[5]) /\ IsAtom(t[6]) /\ t[7].t = "Rparen")
           => ParsedAs(ExprInfix(AtomOf(t[1]), TokenDisplay(t[2]),
                                 ExprInfix(AtomOf(t[4]), TokenDisplay(t[5]), AtomOf(t[6]))))
        /\ (n = 7 /\ t[1].t = "Lparen" /\ IsAtom(t[2]) /\ IsBinaryOp(t[3]) /\ IsAtom(t[4])
                  /\ t[5].t = "Rparen" /\ IsBinaryOp(t[6]) /\ IsAtom(t[7]))
           => ParsedAs(ExprInfix(ExprInfix(AtomOf(t[2]), TokenDisplay(t[3]), AtomOf(t[4])),
                                 TokenDisplay(t[6]), AtomOf(t[7])))

\* a + a * a has been parsed into (a + (a * a))
C4_Witness ==
    /\ pstatus = "done"
    /\ parser.toks = <<TA, Tok("Plus"), TA, Tok("Asterisk"), TA>>
    /\ parsed = <<StmtExpression(ExprInfix(ExprLiteral("a"), "+",
                     ExprInfix(ExprLiteral("a"), "*", ExprLiteral("a"))))>>

\* C5: parse_program does not abort, whatever the tokens.
C5_ParserNeverAborts == pstatus # "panicked"

\* C6: parse_program does not enter a loop that never ends.
C6_ParserTerminates == pstatus # "hung"

\* C10: for the text return <expr>; the first statement of the program is a
\* Return statement whose expression is the parse of <expr> at lowest
\* precedence.
C10_ReturnKeepsExpression ==
    LET t == parser.toks
        e == parse_expression(ParserNew(Tail(t)), Lowest)
    IN  (/\ pstatus = "done"
         /\ t # <<>> /\ t[1].t = "Return"
         /\ e.st = "ok" /\ e.r # <<>> /\ e.p.peek.t = "Semicolon")
        => parsed # <<>> /\ parsed[1] = StmtReturn(e.r[1])

----------------------------------------------------------------------------
(* Claims about the lexer, checked under SpecLex.                          *)

\* the text holds a digit
HasDigit(input) == \E k \in 1..Len(input) : is_digit(input[k])

\* C14: on a text of n chars, chars outside ASCII included, no call of
\* next_token fails and Eof is returned by call n + 1 at the latest (texts
\* with integer literals are set aside).
C14_EveryTextIsLexed ==
    ~HasDigit(lexer.input) =>
        /\ atEof = <<>> => lstatus # "panicked" /\ lcalls <= Len(lexer.input)
        /\ atEof # <<>> => lcalls <= Len(lexer.input) + 1

\* C9: once next_token has returned Eof, every later call returns Eof, does
\* not fail, and leaves ch, position and read_position as they were.
C9_EofIsAbsorbing ==
    atEof # <<>> =>
        /\ lstatus # "panicked"
        /\ ltok = <<Tok("Eof")>>
        /\ lexer = atEof[1]

----------------------------------------------------------------------------
(* Claims about expressions, checked under SpecExpr.  The statement xstmt  *)
(* has been evaluated when trace is not empty; the value eval_expression   *)
(* gave for its expression is the one its last event carries.              *)

Evaluated == trace # <<>>
RawValue == trace[Len(trace)].o[1]
\* the events of the blocks the expression of xstmt ran
InnerTrace == SubSeq(trace, 2, Len(trace) - 1)

\* C11: a conditional runs its consequence when the condition is Boolean
\* true, its alternative (or nothing, yielding Null) when the condition is
\* Boolean false or Null, and its consequence for every other value that is
\* no error; the statements that ran are those of that one block.
C11_ConditionSelectsBlock ==
    (Evaluated /\ xstmt.e.k = "If") =>
        LET c == eval_expression(xstmt.e.kids[1], envBefore, overflow_checks)
            Ran(block) ==
                LET r == eval_block_statements(block, c.env, overflow_checks)
                IN  /\ InnerTrace = c.tr \o r.tr
                    /\ r.o # <<>> => RawValue = r.o[1]
            AlternativeOrNothing ==
                IF xstmt.e.alter # <<>> THEN Ran(xstmt.e.alter[1])
                ELSE InnerTrace = c.tr /\ RawValue = ObjNull
        IN  CASE c.o.k \in {"Error", "Panic"} -> TRUE
              [] c.o.k = "Boolean" /\ c.o.b -> Ran(xstmt.e.conseq)
              [] c.o.k \in {"Boolean", "Null"} -> AlternativeOrNothing
              [] OTHER -> Ran(xstmt.e.conseq)

\* C11 witness: if (0) { 10 } else { 20 } has yielded 10
C11_Witness ==
    /\ Evaluated
    /\ xstmt = StmtExpression(ExprIf(ExprInt(0), <<StmtExpression(ExprInt(10))>>,
                                     <<<<StmtExpression(ExprInt(20))>>>>))
    /\ result = <<ObjInteger(10)>>

\* C15: when an operand of a prefix or infix operator, or the condition of
\* a conditional, evaluates to a return signal, the expression evaluates to
\* that return signal and evaluates nothing further (evaluations that
\* aborted are set aside).
C15_ReturnSignalPropagates ==
    (Evaluated /\ RawValue.k # "Panic") =>
        LET a == IF xstmt.e.kids # <<>>
                 THEN eval_expression(xstmt.e.kids[1], envBefore, overflow_checks)
                 ELSE Res(ObjNull, envBefore, <<>>)
            b == IF xstmt.e.k = "Infix"
                 THEN eval_expression(xstmt.e.kids[2], a.env, overflow_checks)
                 ELSE Res(ObjNull, a.env, <<>>)
        IN  /\ (xstmt.e.k \in {"Prefix", "Infix", "If"} /\ a.o.k = "Return")
               => RawValue = a.o /\ InnerTrace = a.tr
            /\ (xstmt.e.k = "Infix" /\ a.o.k \notin {"Return", "Error", "Panic"}
                  /\ b.o.k = "Return")
               => RawValue = b.o

\* C16: an infix operator over two values that are no errors and not both
\* Integer: == yields Boolean(left equals right), != its negation, values
\* of different kinds being unequal; every other operator yields the error
\* mismatch expression operation: <left> <op> <right>.  An error on the left
\* is the result, and the right operand is not evaluated.
C16_InfixOverOtherKinds ==
    (Evaluated /\ xstmt.e.k = "Infix") =>
        LET l == eval_expression(xstmt.e.kids[1], envBefore, overflow_checks)
            r == eval_expression(xstmt.e.kids[2], l.env, overflow_checks)
            op == xstmt.e.s
        IN  CASE l.o.k = "Error" -> RawValue = l.o /\ InnerTrace = l.tr
              [] l.o.k = "Panic" \/ r.o.k \in {"Error", "Panic"} -> TRUE
              [] l.o.k = "Integer" /\ r.o.k = "Integer" -> TRUE
              [] op = "==" ->
                   /\ RawValue = ObjBoolean(l.o = r.o)
                   /\ l.o.k # r.o.k => RawValue = ObjBoolean(FALSE)
              [] op = "!=" ->
                   /\ RawValue = ObjBoolean(l.o # r.o)
                   /\ l.o.k # r.o.k => RawValue = ObjBoolean(TRUE)
              [] OTHER ->
                   RawValue = ObjError("mismatch expression operation: " \o to_string(l.o)
                                       \o " " \o op \o " " \o to_string(r.o))

\* C16 witness: 1 == true has yielded Boolean(false)
C16_Witness ==
    /\ Evaluated
    /\ xstmt = StmtExpression(ExprInfix(ExprInt(1), "==", TrueE))
    /\ result = <<ObjBoolean(FALSE)>>

\* C17: evaluating an expression, a conditional whose blocks hold let
\* statements included, leaves the Environment as it was; a top-level let
\* changes the binding of its own identifier and no other.
C17_OnlyTopLevelLetBinds ==
    Evaluated =>
        IF xstmt.k = "Let"
        THEN /\ DOMAIN env \subseteq DOMAIN envBefore \cup {xstmt.id}
             /\ \A name \in DOMAIN envBefore \ {xstmt.id} :
                    name \in DOMAIN env /\ env[name] = envBefore[name]
        ELSE env = envBefore

\* C17 witness: with x bound to 5, if (true) { let x = 1; x } has yielded 5
C17_Witness ==
    /\ Evaluated
    /\ xstmt = StmtExpression(ExprIf(TrueE, <<StmtLet("x", ExprInt(1)),
                                              StmtExpression(ExprLiteral("x"))>>, <<>>))
    /\ env = EnvInsert(EnvironmentNew, "x", ObjInteger(5))
    /\ result = <<ObjInteger(5)>>

\* C19: +, -, *, / by a divisor that is not zero, and unary -, over Integers
\* never abort the evaluation, whatever the mathematical result.
C19_ArithmeticNeverAborts ==
    status = "panicked" =>
        result[1].msg \notin {"arithmetic overflow", "attempt to divide with overflow"}

\* C20: prefix ! yields Boolean(not b) on Boolean b and Boolean(i = 0) on
\* Integer i, so that !!b is b and !!i is Boolean(i # 0); on another value
\* that is no error it yields the error unknown prefix type: <value>; prefix
\* - on a value that is no Integer and no error yields the error
\* unknown operator: -<value>; an error operand is the result.
C20_PrefixOperators ==
    (Evaluated /\ xstmt.e.k = "Prefix") =>
        LET a == eval_expression(xstmt.e.kids[1], envBefore, overflow_checks).o
            inner == xstmt.e.kids[1]
            v == IF inner.k = "Prefix" /\ inner.s = "!" /\ xstmt.e.s = "!"
                 THEN eval_expression(inner.kids[1], envBefore, overflow_checks).o
                 ELSE ObjNull
        IN  /\ CASE a.k = "Error" -> RawValue = a
                 [] a.k = "Panic" -> TRUE
                 [] xstmt.e.s = "!" /\ a.k = "Boolean" -> RawValue = ObjBoolean(~a.b)
                 [] xstmt.e.s = "!" /\ a.k = "Integer" -> RawValue = ObjBoolean(a.n = 0)
                 [] xstmt.e.s = "!" ->
                      RawValue = ObjError("unknown prefix type: " \o to_string(a))
                 [] xstmt.e.s = "-" /\ a.k # "Integer" ->
                      RawValue = ObjError("unknown operator: -" \o to_string(a))
                 [] OTHER -> TRUE
            /\ (inner.k = "Prefix" /\ inner.s = "!" /\ xstmt.e.s = "!") =>
                 /\ v.k = "Boolean" => RawValue = v
                 /\ v.k = "Integer" => RawValue = ObjBoolean(v.n # 0)

\* C20 witness: with x bound to 5, !!x has yielded Boolean(true)
C20_Witness ==
    /\ Evaluated
    /\ xstmt = StmtExpression(ExprPrefix("!", ExprPrefix("!", ExprLiteral("x"))))
    /\ envBefore = EnvInsert(EnvironmentNew, "x", ObjInteger(5))
    /\ result = <<ObjBoolean(TRUE)>>

----------------------------------------------------------------------------
(* Claims about the REPL, checked under SpecRepl.                          *)

\* parse_program has returned for the line read last, with errors
LineHasErrors == pstatus \in {"done", "off"} /\ parser.errors # <<>>

\* C13: a line whose parse produced errors is not evaluated: no statement
\* of it runs, the Environment stays as it was when the line was read, and
\* what is written is the parse errors, one per line.
C13_ErrorLineNotEvaluated ==
    (LineHasErrors /\ status # "ended") =>
        /\ status = "idle"
        /\ trace = <<>>
        /\ ip = 0
        /\ env = envBefore
        /\ pstatus = "off" =>
             out = <<PROMPT>>
                   \o [i \in 1..Len(parser.errors) |-> "\t" \o parser.errors[i] \o "\n"]

\* C13 witness: the second line, let x = 9; let 9, parsed into two statements
\* and an error, with x bound by the first line
C13_Witness ==
    /\ LineHasErrors
    /\ lineNo = 2
    /\ Len(parsed) = 2
    /\ "x" \in DOMAIN env
    /\ env["x"] # ObjInteger(9)
    /\ status = "idle"
    /\ pstatus = "off"

\* C21: once a read_line has returned Ok(0), the end of input, the loop
\* eventually stops and start returns.
C21_EofEndsSession == eof ~> (status = "ended")

====
